---- MODULE Spec2Model ----
(***************************************************************************)
(* A model of the sentence-aware chunker (src/text_splitters.py), of the    *)
(* parent/child ingester built on it (src/parent_child_ingester.py), of    *)
(* the map-reduce summarizer (src/simple_doc_summarizer.py) and of the     *)
(* agent loop (src/react_agent_basic.py).                                  *)
(*                                                                         *)
(* A text is a flat sequence of tokens; "." ends a sentence.  The external *)
(* nltk capabilities are modelled by what they do on such texts:           *)
(* sent_tokenize cuts after every ".", word_tokenize counts every token    *)
(* ("a." is the two tokens "a" and "."), and " ".join puts the sentences   *)
(* back one after the other.                                               *)
(***************************************************************************)
EXTENDS Integers, Sequences, FiniteSets, TLC

VARIABLES
    \* ---- sentence_aware_splitter, one call, step by step ----
    text,                  \* argument
    num_tokens,            \* argument
    token_overlap,         \* argument
    sentence_data,         \* list of <<sentence, token count>>
    chunks,                \* the chunks emitted so far
    current_sentence_idx,  \* 0-based, as in the source
    end_sentence_idx,      \* 0-based, exclusive
    pc,                    \* "start", "build", "overlap", "done", "error"
    spans,                 \* history: <<current_sentence_idx, end_sentence_idx>> of each chunk
    \* ---- ParentChildIngester, one instance after the other ----
    parent_doc_store,      \* the dict, in insertion order: <<parent_id, chunk>>
    chroma_collection,     \* the 'docs' collection: [id, metadata, document]
    session_text,          \* the text this session ingests
    call,                  \* the last call of a method: arguments and outcome
    rerun,                 \* history: how far an ingestion and its repetition have come
    \* ---- SimpleReactAgent.run, one call, one round of the loop after the other ----
    agent_tools,           \* tools: the class names of the tools supplied
    agent_num_steps,       \* num_steps
    agent_step,            \* i, the rounds of the loop completed
    agent_history,         \* history
    agent_user_msg,        \* user_msg
    agent_response,        \* the response of the model in the last round
    agent_result,          \* what run returned or raised
    agent_pc,              \* "idle", "loop", "returned", "raised"
    agent_calls,           \* history: the number of calls of the model
    agent_executed,        \* history: <<round, tool>> of every tool called
    \* ---- MapReduceSummarizer.summarize, one call, step by step ----
    sum_text,              \* text
    sum_config,            \* config: <<num_tokens, token_overlap>>
    sum_chunks,            \* chunks
    sum_idx,               \* the chunks the map loop has gone through
    chunk_summaries,       \* chunk_summaries
    total_chunk_len,       \* total_chunk_len
    sum_result,            \* what summarize returned or raised
    sum_pc,                \* "idle", "start", "map", "returned", "raised"
    map_log,               \* history: the outcome of the map step of each chunk
    reduce_log             \* history: the argument of each call of _reduce_function

splitVars == <<text, num_tokens, token_overlap, sentence_data, chunks,
               current_sentence_idx, end_sentence_idx, pc, spans>>

ingestVars == <<parent_doc_store, chroma_collection, session_text, call, rerun>>

agentVars == <<agent_tools, agent_num_steps, agent_step, agent_history, agent_user_msg,
               agent_response, agent_result, agent_pc, agent_calls, agent_executed>>

summarizerVars == <<sum_text, sum_config, sum_chunks, sum_idx, chunk_summaries,
                    total_chunk_len, sum_result, sum_pc, map_log, reduce_log>>

vars == <<splitVars, ingestVars, agentVars, summarizerVars>>

-----------------------------------------------------------------------------
(* Bounds of the model *)

SplitMaxSentences == 4   \* sentences in a text given to the splitter
SplitMaxWords == 2       \* words before the "." of a sentence
MaxNumTokens == 3        \* num_tokens and token_overlap range over 0..MaxNumTokens

\* No run emits more chunks than there are sentences; the cap only stops a
\* splitter that has ceased to advance.
MaxChunks == SplitMaxSentences + 1

-----------------------------------------------------------------------------
(* Texts *)

Period == "."

\* White space, which belongs to no sentence
Space == " "

Max(a, b) == IF a >= b THEN a ELSE b

\* The sentence of k words "a" and its final "."
Sentence(k) == [i \in 1..(k + 1) |-> IF i <= k THEN "a" ELSE Period]

RECURSIVE SeqsUpTo(_, _)
\* All sequences over S of length 0..n
SeqsUpTo(S, n) ==
    IF n = 0 THEN {<<>>}
    ELSE LET shorter == SeqsUpTo(S, n - 1)
         IN  shorter \cup {Append(s, x) : s \in shorter, x \in S}

RECURSIVE Join(_)
\* " ".join(chunk_sentences)
Join(sentences) ==
    IF sentences = <<>> THEN <<>>
    ELSE Head(sentences) \o Join(Tail(sentences))

RECURSIVE SentTokenizeFrom(_, _, _)
SentTokenizeFrom(t, i, cur) ==
    IF i > Len(t)
    THEN IF cur = <<>> THEN <<>> ELSE <<cur>>
    ELSE IF t[i] = Period
         THEN <<Append(cur, t[i])>> \o SentTokenizeFrom(t, i + 1, <<>>)
         ELSE IF t[i] = Space /\ cur = <<>>
              THEN SentTokenizeFrom(t, i + 1, cur)
              ELSE SentTokenizeFrom(t, i + 1, Append(cur, t[i]))

\* sent_tokenize(text): the sentences of a text, each ending with its "."
sent_tokenize(t) == SentTokenizeFrom(t, 1, <<>>)

\* word_tokenize(s): the tokens of a sentence
word_tokenize(s) == s

\* [(s, len(word_tokenize(s))) for s in sentences]
SentenceData(sentences) ==
    [i \in 1..Len(sentences) |-> <<sentences[i], Len(word_tokenize(sentences[i]))>>]

SplitTexts ==
    {Join(ss) : ss \in SeqsUpTo({Sentence(k) : k \in 0..SplitMaxWords}, SplitMaxSentences)}

-----------------------------------------------------------------------------
(* sentence_aware_splitter: the loops *)

\* if num_tokens <= token_overlap: raise ValueError
InvalidConfiguration_Strict(num, overlap) == num < overlap

InvalidConfiguration(num, overlap) == num <= overlap

RECURSIVE AddSentences_LateLimit(_, _, _, _, _)
\* A greedy loop that tests the limit before it counts the next sentence
AddSentences_LateLimit(data, num, end, chunk_sentences, chunk_token_count) ==
    IF end >= Len(data)
    THEN [end |-> end, sentences |-> chunk_sentences, tokens |-> chunk_token_count]
    ELSE LET sentence == data[end + 1][1]
             count == data[end + 1][2]
         IN  IF chunk_sentences = <<>> /\ count > num
             THEN [end |-> end + 1,
                   sentences |-> Append(chunk_sentences, sentence),
                   tokens |-> chunk_token_count + count]
             ELSE IF chunk_token_count > num
                  THEN [end |-> end, sentences |-> chunk_sentences,
                        tokens |-> chunk_token_count]
                  ELSE AddSentences_LateLimit(data, num, end + 1,
                                              Append(chunk_sentences, sentence),
                                              chunk_token_count + count)

RECURSIVE AddSentences_NoOversizedRule(_, _, _, _, _)
\* A greedy loop without the rule for a sentence longer than num_tokens
AddSentences_NoOversizedRule(data, num, end, chunk_sentences, chunk_token_count) ==
    IF end >= Len(data)
    THEN [end |-> end, sentences |-> chunk_sentences, tokens |-> chunk_token_count]
    ELSE LET sentence == data[end + 1][1]
             count == data[end + 1][2]
         IN  IF chunk_token_count + count > num
             THEN [end |-> end, sentences |-> chunk_sentences,
                   tokens |-> chunk_token_count]
             ELSE AddSentences_NoOversizedRule(data, num, end + 1,
                                               Append(chunk_sentences, sentence),
                                               chunk_token_count + count)

RECURSIVE AddSentences(_, _, _, _, _)
\* The greedy inner loop.  end is 0-based; the result is the state of the
\* loop when it exits.
AddSentences(data, num, end, chunk_sentences, chunk_token_count) ==
    IF end >= Len(data)
    THEN [end |-> end, sentences |-> chunk_sentences, tokens |-> chunk_token_count]
    ELSE LET sentence == data[end + 1][1]
             count == data[end + 1][2]
         IN  IF chunk_sentences = <<>> /\ count > num
             THEN [end |-> end + 1,
                   sentences |-> Append(chunk_sentences, sentence),
                   tokens |-> chunk_token_count + count]
             ELSE IF chunk_token_count + count > num
                  THEN [end |-> end, sentences |-> chunk_sentences,
                        tokens |-> chunk_token_count]
                  ELSE AddSentences(data, num, end + 1,
                                    Append(chunk_sentences, sentence),
                                    chunk_token_count + count)

RECURSIVE StepBack_OneTooMany(_, _, _, _, _)
\* A backward walk that goes on while the overlap is just reached
StepBack_OneTooMany(data, overlap, cur, next_start_idx, overlap_token_count) ==
    IF next_start_idx > cur /\ overlap_token_count <= overlap
    THEN StepBack_OneTooMany(data, overlap, cur, next_start_idx - 1,
                             overlap_token_count + data[next_start_idx + 1][2])
    ELSE next_start_idx

RECURSIVE StepBack(_, _, _, _, _)
\* The backward walk: the value of next_start_idx when the loop exits.
StepBack(data, overlap, cur, next_start_idx, overlap_token_count) ==
    IF next_start_idx > cur /\ overlap_token_count < overlap
    THEN StepBack(data, overlap, cur, next_start_idx - 1,
                  overlap_token_count + data[next_start_idx + 1][2])
    ELSE next_start_idx

\* The next chunk starts at next_start_idx itself, without the max()
NextChunkStart_NoAdvance(next_start_idx, cur) == next_start_idx

\* The next chunk starts one sentence too far
NextChunkStart_SkipsOne(next_start_idx, cur) == Max(next_start_idx + 2, cur + 1)

\* The max() without the step past the current start
NextChunkStart_OffByOne(next_start_idx, cur) == Max(next_start_idx, cur)

\* current_sentence_idx = max(next_start_idx + 1, current_sentence_idx + 1)
NextChunkStart(next_start_idx, cur) == Max(next_start_idx + 1, cur + 1)

-----------------------------------------------------------------------------
(* sentence_aware_splitter, step by step *)

\* The ingester before any call of its methods
NoCall ==
    [op |-> "none", num |-> 0, overlap |-> 0, fail_at |-> 0,
     n_results |-> 0, hits |-> {}, error |-> "none", result |-> <<>>]

NoRerun ==
    [stage |-> 0, parent |-> <<0, 0>>, child |-> <<0, 0>>,
     store |-> <<>>, collection |-> <<>>]

\* No ingester is at work while the splitter is looked at alone.
IngestIdle ==
    /\ parent_doc_store = <<>>
    /\ chroma_collection = <<>>
    /\ session_text = <<>>
    /\ call = NoCall
    /\ rerun = NoRerun

\* The value None, and str(None)
None == "<None>"

NoResponse == [kind |-> "none", tool |-> None, args |-> {}]

\* No agent is at work.
AgentIdle ==
    /\ agent_tools = {}
    /\ agent_num_steps = 0
    /\ agent_step = 0
    /\ agent_history = <<>>
    /\ agent_user_msg = <<>>
    /\ agent_response = NoResponse
    /\ agent_result = <<>>
    /\ agent_pc = "idle"
    /\ agent_calls = 0
    /\ agent_executed = <<>>

\* An Optional[str]: None, or a text
Nothing == [is_none |-> TRUE, text |-> <<>>]

Some(t) == [is_none |-> FALSE, text |-> t]

\* No summarizer is at work.
SummarizerIdle ==
    /\ sum_text = <<>>
    /\ sum_config = <<0, 0>>
    /\ sum_chunks = <<>>
    /\ sum_idx = 0
    /\ chunk_summaries = <<>>
    /\ total_chunk_len = 0
    /\ sum_result = Nothing
    /\ sum_pc = "idle"
    /\ map_log = <<>>
    /\ reduce_log = <<>>

SplitInit ==
    /\ text \in SplitTexts
    /\ num_tokens \in 0..MaxNumTokens
    /\ token_overlap \in 0..MaxNumTokens
    /\ sentence_data = <<>>
    /\ chunks = <<>>
    /\ current_sentence_idx = 0
    /\ end_sentence_idx = 0
    /\ pc = "start"
    /\ spans = <<>>
    /\ IngestIdle
    /\ AgentIdle
    /\ SummarizerIdle

\* raise ValueError("num_tokens must be greater than token_overlap")
SplitInvalid ==
    /\ pc = "start"
    /\ InvalidConfiguration(num_tokens, token_overlap)
    /\ pc' = "error"
    /\ UNCHANGED <<text, num_tokens, token_overlap, sentence_data, chunks,
                   current_sentence_idx, end_sentence_idx, spans>>
    /\ UNCHANGED <<ingestVars, agentVars, summarizerVars>>

\* Segmentation, and the early return [] of a text without sentences
SplitSegment ==
    /\ pc = "start"
    /\ ~InvalidConfiguration(num_tokens, token_overlap)
    /\ LET sentences == sent_tokenize(text)
       IN  IF sentences = <<>>
           THEN /\ pc' = "done"
                /\ UNCHANGED sentence_data
           ELSE /\ sentence_data' = SentenceData(sentences)
                /\ pc' = "build"
    /\ UNCHANGED <<text, num_tokens, token_overlap, chunks,
                   current_sentence_idx, end_sentence_idx, spans>>
    /\ UNCHANGED <<ingestVars, agentVars, summarizerVars>>

\* One chunk: the greedy loop, chunks.append, and the test for the end
SplitBuildChunk ==
    /\ pc = "build"
    /\ Len(chunks) < MaxChunks
    /\ LET r == AddSentences(sentence_data, num_tokens, current_sentence_idx, <<>>, 0)
       IN  /\ chunks' = Append(chunks, Join(r.sentences))
           /\ end_sentence_idx' = r.end
           /\ spans' = Append(spans, <<current_sentence_idx, r.end>>)
           /\ pc' = IF r.end >= Len(sentence_data) THEN "done" ELSE "overlap"
    /\ UNCHANGED <<text, num_tokens, token_overlap, sentence_data, current_sentence_idx>>
    /\ UNCHANGED <<ingestVars, agentVars, summarizerVars>>

\* The start of the next chunk, and the test of the outer loop
SplitOverlap ==
    /\ pc = "overlap"
    /\ LET next_start_idx == StepBack(sentence_data, token_overlap, current_sentence_idx,
                                      end_sentence_idx - 1, 0)
           next == NextChunkStart(next_start_idx, current_sentence_idx)
       IN  /\ current_sentence_idx' = next
           /\ pc' = IF next < Len(sentence_data) THEN "build" ELSE "done"
    /\ UNCHANGED <<text, num_tokens, token_overlap, sentence_data, chunks,
                   end_sentence_idx, spans>>
    /\ UNCHANGED <<ingestVars, agentVars, summarizerVars>>

SplitNext == SplitInvalid \/ SplitSegment \/ SplitBuildChunk \/ SplitOverlap

SplitSpec == SplitInit /\ [][SplitNext]_vars

\* The call runs to its end: no step of it waits on anything.
FairSplitSpec == SplitSpec /\ WF_vars(SplitNext)

-----------------------------------------------------------------------------
(* sentence_aware_splitter as a function *)

RECURSIVE SplitLoop(_, _, _, _)
SplitLoop(data, num, overlap, cur) ==
    IF cur >= Len(data) THEN <<>>
    ELSE LET r == AddSentences(data, num, cur, <<>>, 0)
         IN  <<Join(r.sentences)>> \o
             (IF r.end >= Len(data) THEN <<>>
              ELSE SplitLoop(data, num, overlap,
                             NextChunkStart(StepBack(data, overlap, cur, r.end - 1, 0), cur)))

sentence_aware_splitter(t, num, overlap) ==
    IF InvalidConfiguration(num, overlap)
    THEN [error |-> TRUE, chunks |-> <<>>]
    ELSE LET sentences == sent_tokenize(t)
         IN  IF sentences = <<>>
             THEN [error |-> FALSE, chunks |-> <<>>]
             ELSE [error |-> FALSE,
                   chunks |-> SplitLoop(SentenceData(sentences), num, overlap, 0)]

\* The step-by-step splitter and the function agree.
SplitStepsAgree ==
    /\ pc = "done" => chunks = sentence_aware_splitter(text, num_tokens, token_overlap).chunks
    /\ pc = "error" <=> (pc # "start" /\ sentence_aware_splitter(text, num_tokens, token_overlap).error)

-----------------------------------------------------------------------------
(* ParentChildIngester: inputs *)

MaxTextSentences == 3    \* sentences in a text given to ingest_parents
MaxFailAt == 2           \* the embedding that fails is one of the first MaxFailAt of a call
MaxResults == 3          \* n_results ranges over 1..MaxResults

\* The sentences "." (one token) and "a." (two tokens)
IngestSentences == {Sentence(0), Sentence(1)}

IngestTexts == {Join(ss) : ss \in SeqsUpTo(IngestSentences, MaxTextSentences)}

\* (num_tokens, token_overlap) of the parents and of the children
ParentParams == {<<3, 1>>, <<2, 0>>, <<2, 2>>}

ChildParams == {<<1, 0>>, <<2, 1>>, <<1, 1>>}

-----------------------------------------------------------------------------
(* ParentChildIngester: the methods *)

TokenCode(tok) == IF tok = Period THEN 1 ELSE 2

RECURSIVE Digest(_, _)
Digest(t, h) == IF t = <<>> THEN h ELSE Digest(Tail(t), 3 * h + TokenCode(Head(t)))

\* hashlib.sha256(chunk.encode()).hexdigest(): one id per text, no two texts
\* with the same id
sha256(t) == Digest(t, 0)

\* self.parent_doc_store[parent_id] = chunk
StoreSet(store, parent_id, chunk) ==
    IF \E i \in 1..Len(store) : store[i][1] = parent_id
    THEN [i \in 1..Len(store) |->
             IF store[i][1] = parent_id THEN <<parent_id, chunk>> ELSE store[i]]
    ELSE Append(store, <<parent_id, chunk>>)

RECURSIVE StoreChunks(_, _)
\* for chunk in parent_chunks: ...
StoreChunks(store, parent_chunks) ==
    IF parent_chunks = <<>> THEN store
    ELSE StoreChunks(StoreSet(store, sha256(Head(parent_chunks)), Head(parent_chunks)),
                     Tail(parent_chunks))

_ingest_parent_docs(store, t, parent_num_tokens, parent_token_overlap) ==
    LET r == sentence_aware_splitter(t, parent_num_tokens, parent_token_overlap)
    IN  IF r.error
        THEN [error |-> "ValueError: num_tokens must be greater than token_overlap",
              store |-> store]
        ELSE [error |-> "none", store |-> StoreChunks(store, r.chunks)]

\* A collection that appends whatever it is given
CollectionAdd_Append(collection, id, metadata, document) ==
    Append(collection, [id |-> id, metadata |-> metadata, document |-> document])

\* chroma_collection.add: a record whose id the collection already holds is
\* ignored, without an exception
CollectionAdd(collection, id, metadata, document) ==
    IF \E i \in 1..Len(collection) : collection[i].id = id
    THEN collection
    ELSE Append(collection, [id |-> id, metadata |-> metadata, document |-> document])

RECURSIVE AddChildren_SkipFailed(_, _, _, _, _, _)
\* A loop that catches the failure of ollama.embed and goes on
AddChildren_SkipFailed(collection, parent_id, child_chunks, i, embeds, fail_at) ==
    IF i >= Len(child_chunks)
    THEN [error |-> "none", collection |-> collection, embeds |-> embeds]
    ELSE LET child_chunk == child_chunks[i + 1]
             child_id == sha256(child_chunk)
         IN  IF embeds + 1 = fail_at
             THEN AddChildren_SkipFailed(collection, parent_id, child_chunks, i + 1,
                                         embeds + 1, fail_at)
             ELSE AddChildren_SkipFailed(
                      CollectionAdd(collection, child_id,
                                    [parent_id |-> parent_id, chunk_index |-> i],
                                    child_chunk),
                      parent_id, child_chunks, i + 1, embeds + 1, fail_at)

RECURSIVE AddChildren(_, _, _, _, _, _)
\* for i, child_chunk in enumerate(child_chunks): ...
\* embeds counts the calls of ollama.embed made so far; the call number
\* fail_at raises, and nothing catches it.
AddChildren(collection, parent_id, child_chunks, i, embeds, fail_at) ==
    IF i >= Len(child_chunks)
    THEN [error |-> "none", collection |-> collection, embeds |-> embeds]
    ELSE LET child_chunk == child_chunks[i + 1]
             child_id == sha256(child_chunk)
         IN  IF embeds + 1 = fail_at
             THEN [error |-> "ollama.embed failed", collection |-> collection,
                   embeds |-> embeds + 1]
             ELSE AddChildren(
                      CollectionAdd(collection, child_id,
                                    [parent_id |-> parent_id, chunk_index |-> i],
                                    child_chunk),
                      parent_id, child_chunks, i + 1, embeds + 1, fail_at)

RECURSIVE IngestParentsChildren(_, _, _, _, _, _, _)
\* for parent_id, parent_chunk in self.parent_doc_store.items(): ...
IngestParentsChildren(store, p, collection, child_num_tokens, child_token_overlap, embeds, fail_at) ==
    IF p > Len(store)
    THEN [error |-> "none", collection |-> collection]
    ELSE LET r == sentence_aware_splitter(store[p][2], child_num_tokens, child_token_overlap)
         IN  IF r.error
             THEN [error |-> "ValueError: num_tokens must be greater than token_overlap",
                   collection |-> collection]
             ELSE LET a == AddChildren(collection, store[p][1], r.chunks, 0, embeds, fail_at)
                  IN  IF a.error # "none"
                      THEN [error |-> a.error, collection |-> a.collection]
                      ELSE IngestParentsChildren(store, p + 1, a.collection,
                                                 child_num_tokens, child_token_overlap,
                                                 a.embeds, fail_at)

\* A child ingestion that does not look at the parent store first
ParentsMissing_Unchecked(store) == FALSE

\* if len(self.parent_doc_store) == 0
ParentsMissing(store) == Len(store) = 0

_ingest_child_docs(store, collection, child_num_tokens, child_token_overlap, fail_at) ==
    IF ParentsMissing(store)
    THEN [error |-> "ValueError: Parent Chunks were not created.", collection |-> collection]
    ELSE IngestParentsChildren(store, 1, collection, child_num_tokens, child_token_overlap,
                               0, fail_at)

RECURSIVE Orderings(_)
\* The orders in which the elements of a set may be visited
Orderings(S) ==
    IF S = {} THEN {<<>>}
    ELSE UNION {{<<x>> \o o : o \in Orderings(S \ {x})} : x \in S}

\* The answers the collection may give to a query for n_results records: the
\* positions of any min(n_results, count) of its records
QueryResults(collection, n_results) ==
    {H \in SUBSET (1..Len(collection)) :
        Cardinality(H) = IF n_results <= Len(collection) THEN n_results
                         ELSE Len(collection)}

\* retrieved_parent_ids, a set
RetrievedParentIds(collection, hits) ==
    {collection[j].metadata.parent_id : j \in hits}

StoreHas(store, parent_id) == \E i \in 1..Len(store) : store[i][1] = parent_id

StoreGet(store, parent_id) ==
    store[CHOOSE i \in 1..Len(store) : store[i][1] = parent_id][2]

RECURSIVE LookUp(_, _)
\* for parent_id in ...: if parent_id in self.parent_doc_store: append
LookUp(store, ids) ==
    IF ids = <<>> THEN <<>>
    ELSE (IF StoreHas(store, Head(ids)) THEN <<StoreGet(store, Head(ids))>> ELSE <<>>)
         \o LookUp(store, Tail(ids))

\* A retrieval that keeps the parent ids in a list, one for every hit
RetrievedDocs_PerHit(store, collection, hits) ==
    {LookUp(store, [j \in 1..Len(order) |-> collection[order[j]].metadata.parent_id]) :
        order \in Orderings(hits)}

\* The lists _retrieve_docs may return for the hits: one for every order in
\* which the set of parent ids may be visited
RetrievedDocs(store, collection, hits) ==
    {LookUp(store, order) : order \in Orderings(RetrievedParentIds(collection, hits))}

-----------------------------------------------------------------------------
(* ParentChildIngester: the calls *)

SplitIdle ==
    /\ text = <<>>
    /\ num_tokens = 0
    /\ token_overlap = 0
    /\ sentence_data = <<>>
    /\ chunks = <<>>
    /\ current_sentence_idx = 0
    /\ end_sentence_idx = 0
    /\ pc = "idle"
    /\ spans = <<>>

\* ParentChildIngester(): an empty parent store and a new collection, and
\* the text the session is about
Init ==
    /\ SplitIdle
    /\ AgentIdle
    /\ SummarizerIdle
    /\ parent_doc_store = <<>>
    /\ chroma_collection = <<>>
    /\ session_text \in IngestTexts
    /\ call = NoCall
    /\ rerun = NoRerun

\* How far an ingestion and its repetition have come:
\*   1 after ingest_parents, 2 after the ingest_children that followed it,
\*   3 after the same ingest_parents again, 4 after the same ingest_children again.
RerunAfterParents(params, error) ==
    IF error # "none" THEN NoRerun
    ELSE IF rerun.stage = 2 /\ rerun.parent = params
         THEN [rerun EXCEPT !.stage = 3]
         ELSE [NoRerun EXCEPT !.stage = 1, !.parent = params]

RerunAfterChildren(params, fail_at, error, store, collection) ==
    IF rerun.stage = 1 /\ error = "none"
    THEN [rerun EXCEPT !.stage = 2, !.child = params, !.store = store,
                       !.collection = collection]
    ELSE IF rerun.stage = 3 /\ rerun.child = params /\ fail_at = 0
         THEN [rerun EXCEPT !.stage = 4]
         ELSE NoRerun

IngestParents(params) ==
    /\ LET r == _ingest_parent_docs(parent_doc_store, session_text, params[1], params[2])
       IN  /\ parent_doc_store' = r.store
           /\ call' = [NoCall EXCEPT !.op = "ingest_parents",
                                     !.num = params[1], !.overlap = params[2],
                                     !.error = r.error]
           /\ rerun' = RerunAfterParents(params, r.error)
    /\ UNCHANGED <<chroma_collection, session_text>>
    /\ UNCHANGED <<splitVars, agentVars, summarizerVars>>

IngestChildren(params, fail_at) ==
    /\ LET r == _ingest_child_docs(parent_doc_store, chroma_collection,
                                   params[1], params[2], fail_at)
       IN  /\ chroma_collection' = r.collection
           /\ call' = [NoCall EXCEPT !.op = "ingest_children",
                                     !.num = params[1], !.overlap = params[2],
                                     !.fail_at = fail_at, !.error = r.error]
           /\ rerun' = RerunAfterChildren(params, fail_at, r.error, parent_doc_store,
                                          r.collection)
    /\ UNCHANGED <<parent_doc_store, session_text>>
    /\ UNCHANGED <<splitVars, agentVars, summarizerVars>>

Retrieve(n_results) ==
    /\ \E hits \in QueryResults(chroma_collection, n_results) :
          \E docs \in RetrievedDocs(parent_doc_store, chroma_collection, hits) :
              call' = [NoCall EXCEPT !.op = "retrieve", !.n_results = n_results,
                                     !.hits = hits, !.result = docs]
    /\ rerun' = NoRerun
    /\ UNCHANGED <<parent_doc_store, chroma_collection, session_text>>
    /\ UNCHANGED <<splitVars, agentVars, summarizerVars>>

\* A new ParentChildIngester: the parent store starts empty; the collection
\* 'docs' holds what it held (a persistent client on the same path) or is new.
NewIngester(persistent) ==
    /\ parent_doc_store' = <<>>
    /\ chroma_collection' = IF persistent THEN chroma_collection ELSE <<>>
    /\ call' = [NoCall EXCEPT !.op = "init"]
    /\ rerun' = NoRerun
    /\ UNCHANGED session_text
    /\ UNCHANGED <<splitVars, agentVars, summarizerVars>>

Next ==
    \/ \E params \in ParentParams : IngestParents(params)
    \/ \E params \in ChildParams, fail_at \in 0..MaxFailAt : IngestChildren(params, fail_at)
    \/ \E n_results \in 1..MaxResults : Retrieve(n_results)
    \/ \E persistent \in BOOLEAN : NewIngester(persistent)

Spec == Init /\ [][Next]_vars

-----------------------------------------------------------------------------
(* SimpleReactAgent.run *)

MaxSteps == 2            \* num_steps ranges over 0..MaxSteps

\* The classes of the tools a caller can supply
ToolClasses == {"DateTimeTool", "WebSearchTool"}

\* The keyword parameters of __call__ of each class
ToolParameters(tool) ==
    IF tool = "DateTimeTool" THEN {"format_string"} ELSE {"query"}

\* The values of "tool" in a response: absent, empty, AnswerTool, the classes,
\* and a name no class has
ToolNames == {None, "", "AnswerTool", "SearchTool"} \cup ToolClasses

\* The values of "args" in a response, each the set of its keys
ArgKeys == {{}, {"final_answer"}, {"query"}}

\* What ollama.chat can answer: nothing but whitespace, text that is not
\* JSON, the JSON null, or a JSON object
Responses ==
    {[kind |-> k, tool |-> None, args |-> {}] : k \in {"blank", "malformed", "null"}}
        \cup {[kind |-> "object", tool |-> t, args |-> a] : t \in ToolNames, a \in ArgKeys}

\* Python's truth value of data.get('tool')
Truthy(x) == x # None /\ x # ""

\* str(x), as an f-string formats it
Str(x) == IF x = None THEN "None" ELSE x

\* args.get('final_answer', '')
FinalAnswer(args) == IF "final_answer" \in args THEN "the final answer" ELSE ""

\* f"Error: Tool '{tool_name}' not found."
ToolNotFound(tool_name) == <<"Error: Tool '", Str(tool_name), "' not found.">>

CouldNotParse == <<"Error: Counld not parse agent's response">>

CouldNotDecide == <<"Error: Agent could not decide on a tool or final answer.">>

MaxStepsReached == <<"Maximum number of steps reached without a final answer.">>

\* tool_to_use(**args) raises TypeError before the tool runs, unless args
\* names the parameters
ToolAccepts(tool, args) == args = ToolParameters(tool)

ToolResult(tool, args) == <<"result of", tool>>

\* next((t for t in tools if t.__class__.__name__ == tool_name), None)
ToolToUse(tools, tool_name) ==
    IF tool_name \in tools THEN tool_name ELSE None

AgentInit ==
    /\ agent_tools \in SUBSET ToolClasses
    /\ agent_num_steps \in 0..MaxSteps
    /\ agent_step = 0
    /\ agent_history = <<>>
    /\ agent_user_msg = <<"user question">>
    /\ agent_response = NoResponse
    /\ agent_result = <<>>
    /\ agent_pc = "loop"
    /\ agent_calls = 0
    /\ agent_executed = <<>>
    /\ SplitIdle
    /\ IngestIdle
    /\ SummarizerIdle

\* The round ends with a return or an exception that leaves run.
AgentLeaves(how, result) ==
    /\ agent_pc' = how
    /\ agent_result' = result
    /\ UNCHANGED <<agent_step, agent_history, agent_user_msg, agent_executed>>

\* The round ends and the loop goes on, the history as it was.
AgentGoesOn ==
    /\ agent_pc' = "loop"
    /\ agent_step' = agent_step + 1
    /\ UNCHANGED <<agent_result, agent_history, agent_user_msg>>

\* One round of the loop: the call of the model and what run does with the
\* response r; tool_raises tells whether the tool, if called, raises.
AgentRound(r, tool_raises) ==
    /\ agent_pc = "loop"
    /\ agent_step < agent_num_steps
    /\ agent_calls' = agent_calls + 1
    /\ agent_response' = r
    /\ IF r.kind = "blank"
       THEN AgentLeaves("returned", CouldNotDecide)
       ELSE IF r.kind = "malformed"
       THEN AgentLeaves("raised", <<"json.JSONDecodeError">>)
       ELSE IF r.kind = "null"
       THEN AgentLeaves("returned", CouldNotParse)
       ELSE IF r.tool = "AnswerTool"
       THEN AgentLeaves("returned", <<FinalAnswer(r.args)>>)
       ELSE IF Truthy(r.tool)
       THEN LET tool_to_use == ToolToUse(agent_tools, r.tool)
            IN  IF tool_to_use # None
                THEN IF ToolAccepts(tool_to_use, r.args) /\ ~tool_raises
                     THEN /\ agent_executed' = Append(agent_executed, <<agent_step, tool_to_use>>)
                          /\ agent_history' = agent_history \o
                                 <<[role |-> "user", content |-> <<"tool_call", r.tool, r.args>>],
                                   [role |-> "assistant",
                                    content |-> <<"tool_output", ToolResult(tool_to_use, r.args)>>]>>
                          /\ agent_user_msg' = <<"Observtion: ", ToolResult(tool_to_use, r.args)>>
                          /\ agent_pc' = "loop"
                          /\ agent_step' = agent_step + 1
                          /\ UNCHANGED agent_result
                     ELSE /\ AgentGoesOn
                          /\ agent_executed' =
                                 IF ToolAccepts(tool_to_use, r.args)
                                 THEN Append(agent_executed, <<agent_step, tool_to_use>>)
                                 ELSE agent_executed
                ELSE /\ AgentGoesOn
                     /\ UNCHANGED agent_executed
       ELSE AgentLeaves("returned", ToolNotFound(r.tool))
    /\ UNCHANGED <<agent_tools, agent_num_steps>>
    /\ UNCHANGED <<splitVars, ingestVars, summarizerVars>>

\* The loop has run num_steps rounds.
AgentExhausted ==
    /\ agent_pc = "loop"
    /\ agent_step >= agent_num_steps
    /\ agent_pc' = "returned"
    /\ agent_result' = MaxStepsReached
    /\ UNCHANGED <<agent_tools, agent_num_steps, agent_step, agent_history, agent_user_msg,
                   agent_response, agent_calls, agent_executed>>
    /\ UNCHANGED <<splitVars, ingestVars, summarizerVars>>

AgentNext ==
    \/ \E r \in Responses, tool_raises \in BOOLEAN : AgentRound(r, tool_raises)
    \/ AgentExhausted

AgentSpec == AgentInit /\ [][AgentNext]_vars

-----------------------------------------------------------------------------
(* MapReduceSummarizer.summarize *)

\* The texts given to summarize: those of the ingester, and the same after
\* white space
SummarizerTexts == IngestTexts \cup {<<Space>> \o t : t \in IngestTexts}

\* config.num_tokens and config.token_overlap
SummarizerConfigs == {<<3, 1>>, <<2, 0>>, <<2, 2>>}

\* What ollama.generate can do: answer, answer with the empty string, raise
GenerateOutcomes == {"response", "empty", "exception"}

\* _map_function: the response, or None after an exception
_map_function(chunk, outcome) ==
    IF outcome = "response" THEN Some(<<"summary of">> \o chunk)
    ELSE IF outcome = "empty" THEN Some(<<>>)
    ELSE Nothing

\* _reduce_function: the response, or None after an exception
_reduce_function(summaries, outcome) ==
    IF outcome = "response" THEN Some(<<"final summary of">> \o Join(summaries))
    ELSE IF outcome = "empty" THEN Some(<<>>)
    ELSE Nothing

\* if summary: / if final_summary:
HasText(v) == ~v.is_none /\ v.text # <<>>

FailedMessage == <<"Failed to generate only chunk summaries.">>

ZeroDivisionError == <<"ZeroDivisionError: division by zero">>

SummarizerInit ==
    /\ sum_text \in SummarizerTexts
    /\ sum_config \in SummarizerConfigs
    /\ sum_chunks = <<>>
    /\ sum_idx = 0
    /\ chunk_summaries = <<>>
    /\ total_chunk_len = 0
    /\ sum_result = Nothing
    /\ sum_pc = "start"
    /\ map_log = <<>>
    /\ reduce_log = <<>>
    /\ SplitIdle
    /\ IngestIdle
    /\ AgentIdle

\* chunks = sentence_aware_splitter(text, config.num_tokens, config.token_overlap)
SummarizeSplit ==
    /\ sum_pc = "start"
    /\ LET r == sentence_aware_splitter(sum_text, sum_config[1], sum_config[2])
       IN  IF r.error
           THEN /\ sum_pc' = "raised"
                /\ sum_result' = Some(<<"ValueError">>)
                /\ UNCHANGED sum_chunks
           ELSE /\ sum_pc' = "map"
                /\ sum_chunks' = r.chunks
                /\ UNCHANGED sum_result
    /\ UNCHANGED <<sum_text, sum_config, sum_idx, chunk_summaries, total_chunk_len,
                   map_log, reduce_log>>
    /\ UNCHANGED <<splitVars, ingestVars, agentVars>>

\* One round of the map loop, with the division of its progress line
SummarizeMap(outcome) ==
    /\ sum_pc = "map"
    /\ sum_idx < Len(sum_chunks)
    /\ LET chunk == sum_chunks[sum_idx + 1]
           summary == _map_function(chunk, outcome)
           chunk_len == Len(chunk)
       IN  /\ chunk_summaries' = IF HasText(summary)
                                 THEN Append(chunk_summaries, summary.text)
                                 ELSE chunk_summaries
           /\ map_log' = Append(map_log, outcome)
           /\ total_chunk_len' = total_chunk_len + chunk_len
           /\ IF chunk_len = 0
              THEN /\ sum_pc' = "raised"
                   /\ sum_result' = Some(ZeroDivisionError)
              ELSE /\ sum_pc' = "map"
                   /\ UNCHANGED sum_result
    /\ sum_idx' = sum_idx + 1
    /\ UNCHANGED <<sum_text, sum_config, sum_chunks, reduce_log>>
    /\ UNCHANGED <<splitVars, ingestVars, agentVars>>

\* After the loop: the division of the line of totals, the return without
\* summaries, the reduce step and the return of its result
SummarizeReduce(outcome) ==
    /\ sum_pc = "map"
    /\ sum_idx >= Len(sum_chunks)
    /\ IF Len(sum_text) = 0
       THEN /\ sum_pc' = "raised"
            /\ sum_result' = Some(ZeroDivisionError)
            /\ UNCHANGED reduce_log
       ELSE IF chunk_summaries = <<>>
       THEN /\ sum_pc' = "returned"
            /\ sum_result' = Some(FailedMessage)
            /\ UNCHANGED reduce_log
       ELSE LET final_summary == _reduce_function(chunk_summaries, outcome)
            IN  /\ reduce_log' = Append(reduce_log, chunk_summaries)
                /\ sum_pc' = "returned"
                /\ sum_result' = IF HasText(final_summary) THEN final_summary ELSE Nothing
    /\ UNCHANGED <<sum_text, sum_config, sum_chunks, sum_idx, chunk_summaries,
                   total_chunk_len, map_log>>
    /\ UNCHANGED <<splitVars, ingestVars, agentVars>>

SummarizerNext ==
    \/ SummarizeSplit
    \/ \E outcome \in GenerateOutcomes : SummarizeMap(outcome)
    \/ \E outcome \in GenerateOutcomes : SummarizeReduce(outcome)

SummarizerSpec == SummarizerInit /\ [][SummarizerNext]_vars

-----------------------------------------------------------------------------
(* Properties of sentence_aware_splitter *)

ValidParameters == num_tokens > token_overlap

\* The sentences of the text, as the splitter sees them
Sentences == sent_tokenize(text)

RECURSIVE SumTokens(_)
SumTokens(sentences) ==
    IF sentences = <<>> THEN 0
    ELSE Len(word_tokenize(Head(sentences))) + SumTokens(Tail(sentences))

\* The token count of a chunk: the sum of the token counts of its sentences
ChunkTokenCount(chunk) == SumTokens(sent_tokenize(chunk))

\* The 0-based indices of the sentences that alone exceed num_tokens
Oversized == {j \in 0..(Len(Sentences) - 1) : Len(word_tokenize(Sentences[j + 1])) > num_tokens}

\* C1: with num_tokens > token_overlap and a text of at least one sentence,
\* the splitter terminates and returns at least one chunk.
C1_Terminates ==
    (pc = "start" /\ ValidParameters /\ Sentences # <<>>)
        ~> (pc = "done" /\ Len(chunks) >= 1)

\* C1 witness: a call at the boundary token_overlap = num_tokens - 1 that
\* took several rounds of the outer loop has returned.
C1_Witness ==
    /\ pc = "done"
    /\ token_overlap = num_tokens - 1
    /\ token_overlap >= 1
    /\ Len(chunks) >= 3

\* C2: every emitted chunk is a non-empty contiguous run of whole sentences
\* in their original order, and once the splitter has returned every
\* sentence of the text lies in at least one chunk.
C2_NoSentenceDropped ==
    pc \in {"build", "overlap", "done"} =>
        /\ Len(spans) = Len(chunks)
        /\ \A k \in 1..Len(chunks) :
              /\ 0 <= spans[k][1]
              /\ spans[k][1] < spans[k][2]
              /\ spans[k][2] <= Len(Sentences)
              /\ chunks[k] = Join(SubSeq(Sentences, spans[k][1] + 1, spans[k][2]))
        /\ pc = "done" =>
              \A i \in 0..(Len(Sentences) - 1) :
                  \E k \in 1..Len(chunks) : spans[k][1] <= i /\ i < spans[k][2]

\* C2 witness: the splitter has returned several chunks, two of which overlap.
C2_Witness ==
    /\ pc = "done"
    /\ Len(chunks) >= 3
    /\ \E k \in 1..(Len(chunks) - 1) : spans[k + 1][1] < spans[k][2]

\* C3 as stated: at most one returned chunk exceeds num_tokens, and it is a
\* single sentence that alone exceeds num_tokens.
C3_AtMostOneOversizedChunk ==
    pc = "done" =>
        /\ Cardinality({k \in 1..Len(chunks) : ChunkTokenCount(chunks[k]) > num_tokens}) <= 1
        /\ \A k \in 1..Len(chunks) :
              ChunkTokenCount(chunks[k]) > num_tokens => Len(sent_tokenize(chunks[k])) = 1

\* C3 amended: every returned chunk has a token count <= num_tokens unless it
\* consists of a single sentence that alone exceeds num_tokens; there is one
\* such chunk for every such sentence.
C3_OnlySingleSentencesExceed ==
    pc = "done" =>
        \A k \in 1..Len(chunks) :
            \/ ChunkTokenCount(chunks[k]) <= num_tokens
            \/ /\ Len(sent_tokenize(chunks[k])) = 1
               /\ Len(word_tokenize(sent_tokenize(chunks[k])[1])) > num_tokens

\* C3 witness: the splitter has returned two chunks above num_tokens and a
\* chunk of several sentences.
C3_Witness ==
    /\ pc = "done"
    /\ Cardinality({k \in 1..Len(chunks) : ChunkTokenCount(chunks[k]) > num_tokens}) >= 2
    /\ \E k \in 1..Len(chunks) : Len(sent_tokenize(chunks[k])) >= 2

\* C4: every sentence that alone exceeds num_tokens is returned as a chunk of
\* exactly that sentence, lies in no other chunk, and the chunk returned right
\* after it begins at the sentence that follows it.
C4_OversizedSentenceAlone ==
    pc = "done" =>
        \A j \in Oversized :
            /\ Cardinality({k \in 1..Len(chunks) : spans[k][1] <= j /\ j < spans[k][2]}) = 1
            /\ \A k \in 1..Len(chunks) :
                  (spans[k][1] <= j /\ j < spans[k][2]) =>
                      /\ spans[k] = <<j, j + 1>>
                      /\ chunks[k] = Sentences[j + 1]
                      /\ k < Len(chunks) => spans[k + 1][1] = j + 1

\* C4 witness: a sentence above num_tokens stood between two sentences that
\* are not, with a positive overlap asked for.
C4_Witness ==
    /\ pc = "done"
    /\ token_overlap >= 1
    /\ \E j \in Oversized : j >= 1 /\ j + 1 < Len(Sentences) /\ (j - 1) \notin Oversized
                            /\ (j + 1) \notin Oversized

\* The token sum of the sentences [s, end) of the text (0-based, end exclusive)
SharedTokens(s, end) == SumTokens(SubSeq(Sentences, s + 1, end))

\* The starts s of the suffixes [s, end) of the chunk [start, end) that leave
\* out its first sentence and hold at least token_overlap tokens
OverlapStarts(start, end) ==
    {s \in (start + 1)..end : SharedTokens(s, end) >= token_overlap}

\* The start of the shortest such suffix, start + 1 when there is none
ShortestOverlapStart(start, end) ==
    IF OverlapStarts(start, end) = {} THEN start + 1
    ELSE CHOOSE s \in OverlapStarts(start, end) :
             \A s2 \in OverlapStarts(start, end) : s2 <= s

\* C11: after a non-final chunk [start, end) the next chunk starts at s with
\* start < s <= end, where [s, end) is the shortest suffix of the chunk
\* without its first sentence that holds >= token_overlap tokens, and
\* s = start + 1 when there is no such suffix; so the two chunks share
\* >= token_overlap tokens unless s = start + 1, and share no sentence when
\* token_overlap = 0.
C11_NextStartIsShortestOverlap ==
    pc \in {"build", "overlap", "done"} =>
        \A k \in 1..(Len(spans) - 1) :
            LET start == spans[k][1]
                end == spans[k][2]
                s == spans[k + 1][1]
            IN  /\ start < s
                /\ s <= end
                /\ s = ShortestOverlapStart(start, end)
                /\ s # start + 1 => SharedTokens(s, end) >= token_overlap
                /\ token_overlap = 0 => s = end

\* C11 witness: the backward walk stopped inside a chunk of three sentences
\* or more, with the overlap reached before the first sentence.
C11_Witness ==
    /\ token_overlap >= 1
    /\ \E k \in 1..(Len(spans) - 1) :
           /\ spans[k][1] + 1 < spans[k + 1][1]
           /\ spans[k + 1][1] < spans[k][2]

\* C12 as stated: the end index of successive chunks is strictly increasing,
\* every chunk after the first holds a sentence beyond the last sentence of
\* the chunk before it.
C12_EndStrictlyIncreasing ==
    \A k \in 1..(Len(spans) - 1) : spans[k][2] < spans[k + 1][2]

\* C12 amended: the start index of successive chunks is strictly increasing
\* and the end index never decreases; a chunk that ends where the chunk
\* before it ends is a proper suffix of that chunk, and the sentence that
\* follows does not fit into num_tokens together with it.
C12_StartStrictlyIncreasing ==
    \A k \in 1..(Len(spans) - 1) :
        /\ spans[k][1] < spans[k + 1][1]
        /\ spans[k][2] <= spans[k + 1][2]
        /\ spans[k][2] = spans[k + 1][2] =>
              /\ spans[k + 1][2] < Len(Sentences)
              /\ SharedTokens(spans[k + 1][1], spans[k + 1][2] + 1) > num_tokens

\* C12 witness: a chunk has been emitted that ends where the chunk before it
\* ends, and a later chunk goes beyond both.
C12_Witness ==
    /\ Len(spans) >= 3
    /\ \E k \in 1..(Len(spans) - 2) :
           /\ spans[k][2] = spans[k + 1][2]
           /\ spans[k + 1][2] < spans[k + 2][2]

-----------------------------------------------------------------------------
(* Properties of ParentChildIngester *)

ValueErrorParams == "ValueError: num_tokens must be greater than token_overlap"

ValueErrorParents == "ValueError: Parent Chunks were not created."

EmbedError == "ollama.embed failed"

Ids(collection) == {collection[i].id : i \in 1..Len(collection)}

RECURSIVE Flatten(_)
Flatten(seqs) == IF seqs = <<>> THEN <<>> ELSE Head(seqs) \o Flatten(Tail(seqs))

\* The child chunks of a parent chunk
ChildrenOf(parent_chunk, num, overlap) ==
    sentence_aware_splitter(parent_chunk, num, overlap).chunks

\* What a child ingestion has to record: for every stored parent, in the
\* order of the store, and every child chunk of it, in order, the entry
\* (sha256 of the child, {parent_id, chunk_index}, the child)
ExpectedEntries(store, num, overlap) ==
    Flatten([p \in 1..Len(store) |->
                LET cs == ChildrenOf(store[p][2], num, overlap)
                IN  [i \in 1..Len(cs) |->
                        [id |-> sha256(cs[i]),
                         metadata |-> [parent_id |-> store[p][1], chunk_index |-> i - 1],
                         document |-> cs[i]]]])

\* C5: an ingest_parents and ingest_children repeated with the same text and
\* parameters complete without error and leave the parent store and the
\* vector index as they were after the first time, without duplicate ids.
C5_ReingestionIdempotent ==
    rerun.stage = 4 =>
        /\ call.error = "none"
        /\ parent_doc_store = rerun.store
        /\ chroma_collection = rerun.collection
        /\ \A i, j \in 1..Len(chroma_collection) :
              chroma_collection[i].id = chroma_collection[j].id => i = j
        /\ \A i, j \in 1..Len(parent_doc_store) :
              parent_doc_store[i][1] = parent_doc_store[j][1] => i = j

\* C5 witness: an ingestion of several parents and several children has been
\* repeated.
C5_Witness ==
    /\ rerun.stage = 4
    /\ Len(parent_doc_store) >= 2
    /\ Len(chroma_collection) >= 3

\* C6: ingest_children on an empty parent store fails with 'Parent Chunks
\* were not created', whatever its parameters and before any embedding, and
\* leaves the parent store and the vector index as they were.
C6_ChildrenNeedParents ==
    [][(call'.op = "ingest_children" /\ Len(parent_doc_store) = 0) =>
          /\ call'.error = ValueErrorParents
          /\ parent_doc_store' = parent_doc_store
          /\ chroma_collection' = chroma_collection]_vars

\* C6 witness: the call has failed so on a new ingester whose collection
\* held entries, with parameters that would have failed the chunking and an
\* embedding that would have failed.
C6_Witness ==
    /\ call.op = "ingest_children"
    /\ call.error = ValueErrorParents
    /\ Len(parent_doc_store) = 0
    /\ Len(chroma_collection) >= 1
    /\ call.fail_at = 1

\* C7: with num_tokens <= token_overlap, ingest_parents fails and leaves the
\* parent store unchanged, and ingest_children fails and adds nothing to the
\* vector index; where there are parents the failure is the chunker's
\* ValueError, raised before any embedding.
C7_InvalidConfigurationFailsFast ==
    [][/\ (call'.op = "ingest_parents" /\ call'.num <= call'.overlap) =>
              /\ call'.error = ValueErrorParams
              /\ parent_doc_store' = parent_doc_store
              /\ chroma_collection' = chroma_collection
       /\ (call'.op = "ingest_children" /\ call'.num <= call'.overlap) =>
              /\ call'.error # "none"
              /\ Len(parent_doc_store) > 0 => call'.error = ValueErrorParams
              /\ parent_doc_store' = parent_doc_store
              /\ chroma_collection' = chroma_collection]_vars

\* C7 witness: ingest_children with such parameters has failed on a store of
\* several parents, with an embedding that would have failed.
C7_Witness ==
    /\ call.op = "ingest_children"
    /\ call.num <= call.overlap
    /\ call.error = ValueErrorParams
    /\ call.fail_at = 1
    /\ Len(parent_doc_store) >= 2

\* The parent ids the hits of the last retrieval refer to
HitParentIds == {chroma_collection[j].metadata.parent_id : j \in call.hits}

\* The result of the retrieval c is, once each, the text of every parent id
\* of its hits that the store holds, at most n_results texts.
RetrieveResultExact(c, store, collection) ==
    LET ids == {collection[j].metadata.parent_id : j \in c.hits}
        present == {id \in ids : StoreHas(store, id)}
    IN  /\ c.error = "none"
        /\ Len(c.result) = Cardinality(present)
        /\ {c.result[i] : i \in 1..Len(c.result)} = {StoreGet(store, id) : id \in present}
        /\ \A i, j \in 1..Len(c.result) : c.result[i] = c.result[j] => i = j
        /\ Len(c.result) <= c.n_results
        /\ Cardinality(c.hits) <= c.n_results

\* C8: retrieve returns, exactly once each, the text of every distinct
\* parent_id of the hits that is in the parent store, and nothing else, at
\* most n_results texts, and changes neither the store nor the index.
C8_RetrieveDistinctParents ==
    [][call'.op = "retrieve" =>
          /\ RetrieveResultExact(call', parent_doc_store, chroma_collection)
          /\ parent_doc_store' = parent_doc_store
          /\ chroma_collection' = chroma_collection]_vars

\* C8 witness: a retrieval whose hits shared a parent id, with a parent id
\* that the store holds and one that it does not.
C8_Witness ==
    /\ call.op = "retrieve"
    /\ Cardinality(call.hits) > Cardinality(HitParentIds)
    /\ \E id \in HitParentIds : StoreHas(parent_doc_store, id)
    /\ \E id \in HitParentIds : ~StoreHas(parent_doc_store, id)
    /\ Len(call.result) >= 1

\* The call c, made on the parent store, is an ingest_children during which
\* an embedding failed
EmbeddingFailedIn(c, store) ==
    /\ c.op = "ingest_children"
    /\ Len(store) > 0
    /\ c.num > c.overlap
    /\ c.fail_at \in 1..Len(ExpectedEntries(store, c.num, c.overlap))

EmbeddingFailed == EmbeddingFailedIn(call, parent_doc_store)

\* C9 as stated: when an embedding fails, ingest_children goes on silently
\* and records every other child chunk of every stored parent.
C9_SkipsFailedEmbedding ==
    EmbeddingFailed =>
        /\ call.error = "none"
        /\ LET E == ExpectedEntries(parent_doc_store, call.num, call.overlap)
           IN  \A j \in 1..Len(E) : j # call.fail_at => E[j].id \in Ids(chroma_collection)

\* C9 amended: when an embedding fails, the failure ends ingest_children:
\* the call fails, the entries of the child chunks before the failing one
\* have been added, and nothing else has changed.
C9_FailedEmbeddingEndsIngestion ==
    [][EmbeddingFailedIn(call', parent_doc_store) =>
          LET E == ExpectedEntries(parent_doc_store, call'.num, call'.overlap)
          IN  /\ call'.error = EmbedError
              /\ parent_doc_store' = parent_doc_store
              /\ Len(chroma_collection') >= Len(chroma_collection)
              /\ SubSeq(chroma_collection', 1, Len(chroma_collection)) = chroma_collection
              /\ Ids(chroma_collection')
                     = Ids(chroma_collection) \cup {E[j].id : j \in 1..(call'.fail_at - 1)}]_vars

\* C9 witness: the second embedding of a call failed; the first child chunk
\* is in the index and a later one is not.
C9_Witness ==
    /\ EmbeddingFailed
    /\ call.fail_at = 2
    /\ call.error = EmbedError
    /\ LET E == ExpectedEntries(parent_doc_store, call.num, call.overlap)
       IN  /\ E[1].id \in Ids(chroma_collection)
           /\ \E j \in 3..Len(E) : E[j].id \notin Ids(chroma_collection)

\* C10: after an ingest_children that completed, for every stored parent and
\* every child chunk of it the vector index holds the entry with the child's
\* id and text and the metadata {parent_id, chunk_index} of that parent and
\* position.
C10_EveryChildPointsToItsParent ==
    (call.op = "ingest_children" /\ call.error = "none") =>
        LET E == ExpectedEntries(parent_doc_store, call.num, call.overlap)
        IN  \A j \in 1..Len(E) :
                \E i \in 1..Len(chroma_collection) : chroma_collection[i] = E[j]

-----------------------------------------------------------------------------
(* Properties of SimpleReactAgent.run *)

\* The response names a tool that is neither AnswerTool nor the class of a
\* tool supplied.
NamesUnknownTool(r) ==
    /\ r.kind = "object"
    /\ Truthy(r.tool)
    /\ r.tool # "AnswerTool"
    /\ r.tool \notin agent_tools

\* C13: when the response of a round names a tool that is neither AnswerTool
\* nor the class of a supplied tool, run calls no tool in that round and
\* returns "Error: Tool '<name>' not found."; the model is called at most
\* num_steps times; and a run in which no round returned returns
\* 'Maximum number of steps reached without a final answer.'.
C13_UnknownToolEndsRun ==
    /\ NamesUnknownTool(agent_response) =>
          /\ agent_pc = "returned"
          /\ agent_result = ToolNotFound(agent_response.tool)
          /\ \A k \in 1..Len(agent_executed) : agent_executed[k][1] # agent_calls - 1
    /\ agent_calls <= agent_num_steps
    /\ (agent_pc = "returned" /\ agent_step = agent_num_steps) =>
          agent_result = MaxStepsReached

-----------------------------------------------------------------------------
(* Properties of MapReduceSummarizer.summarize *)

RECURSIVE SucceededSummaries(_)
\* The summaries of the first k chunks whose map step gave a summary, in
\* the order of the chunks
SucceededSummaries(k) ==
    IF k = 0 THEN <<>>
    ELSE IF map_log[k] = "response"
         THEN Append(SucceededSummaries(k - 1), _map_function(sum_chunks[k], "response").text)
         ELSE SucceededSummaries(k - 1)

\* C14: summarize calls the reduce step only with at least one summary, and
\* passes exactly the summaries of the chunks whose map step succeeded, in
\* chunk order, the map loop going through every chunk; when no summary was
\* produced, also when the text yields no chunk (the empty text), it returns
\* 'Failed to generate only chunk summaries.' without calling reduce and
\* without raising.
C14_ReduceOnlyWithSummaries ==
    /\ \A j \in 1..Len(reduce_log) :
          /\ reduce_log[j] # <<>>
          /\ Len(map_log) = Len(sum_chunks)
          /\ reduce_log[j] = SucceededSummaries(Len(sum_chunks))
    /\ (/\ sum_pc \in {"returned", "raised"}
        /\ ~InvalidConfiguration(sum_config[1], sum_config[2])
        /\ chunk_summaries = <<>>) =>
            /\ sum_pc = "returned"
            /\ sum_result = Some(FailedMessage)
            /\ reduce_log = <<>>

====
